---- MODULE Spec2Model ----
(***************************************************************************)
(* Model of follower_automation.py (GitHubFollowerManager): paginated      *)
(* collection of followers / following, set differences, the safety        *)
(* filter, the two capped action loops, statistics and run_automation.     *)
(* One action per remote request or local step of the program; the remote  *)
(* service is the environment: it answers every request with a status of   *)
(* its choice (or the transport raises), and other accounts may follow or  *)
(* unfollow the operating account while the run is in progress.            *)
(***************************************************************************)
EXTENDS Integers, Sequences, FiniteSets, TLC

(***************************************************************************)
(* Bounds of the model.                                                    *)
(***************************************************************************)
\* largest value drawn for MAX_FOLLOWS_PER_RUN / MAX_UNFOLLOWS_PER_RUN
MaxCap == 2
\* number of items the remote puts on one listing page
PageSize == 2
\* number of times another account follows / unfollows during one run
MaxRemoteChanges == 1
\* number of the last page a collection loop is followed to
MaxPages == 4

(***************************************************************************)
(* Values of the remote service.                                           *)
(***************************************************************************)
\* logins known to the remote, in the order in which the remote lists them
UserOrder == <<"GitHub", "acme", "githubfan">>

Users == {UserOrder[i] : i \in DOMAIN UserOrder}

\* the characters of each login
LoginChars(login) ==
    CASE login = "GitHub"    -> <<"G", "i", "t", "H", "u", "b">>
      [] login = "acme"      -> <<"a", "c", "m", "e">>
      [] login = "githubfan" -> <<"g", "i", "t", "h", "u", "b", "f", "a", "n">>
      [] OTHER               -> <<>>

\* the 'type' field the remote reports for each login
AccountType(login) ==
    IF login \in {"GitHub", "acme"} THEN "Organization" ELSE "User"

\* values of the 'followers' field of a resolved profile
FollowerCounts == {10000, 10001}

\* status codes of listing / profile requests and of follow / unfollow requests
GetStatuses == {200, 404, 429, 500}
MutStatuses == {204, 404, 429, 500}

Actions == {"both", "follow_back", "cleanup", "other"}

\* Python's None
None == [none |-> TRUE]

(***************************************************************************)
(* Helpers: Python built-ins used by the program.                          *)
(***************************************************************************)
Min(a, b) == IF a < b THEN a ELSE b

Max(a, b) == IF a > b THEN a ELSE b

\* str.lower() on one character
LowerChar(c) ==
    CASE c = "G" -> "g"
      [] c = "H" -> "h"
      [] OTHER   -> c

\* str.lower()
Lower(s) == [i \in DOMAIN s |-> LowerChar(s[i])]

\* sub in s
Contains(sub, s) ==
    \E k \in 0..(Len(s) - Len(sub)) :
        \A i \in 1..Len(sub) : s[k + i] = sub[i]

\* dict.get(key, default)
Get(d, key, default) == IF key \in DOMAIN d THEN d[key] ELSE default

\* mutant of Slice: the cap is not applied to the list
SliceNoCap(list, n) == list

\* list[:n] for n >= 0
Slice(list, n) == SubSeq(list, 1, Min(Len(list), n))

\* the orders in which list(set) may enumerate a set
Perms(S) ==
    {s \in [1..Cardinality(S) -> S] : {s[i] : i \in DOMAIN s} = S}

RECURSIVE SelectIn(_, _)
SelectIn(seq, S) ==
    IF seq = <<>> THEN <<>>
    ELSE IF Head(seq) \in S THEN <<Head(seq)>> \o SelectIn(Tail(seq), S)
         ELSE SelectIn(Tail(seq), S)

\* the remote's listing of a set of accounts, and its page number p
Listing(S) == SelectIn(UserOrder, S)

PageOf(list, p) ==
    SubSeq(list, (p - 1) * PageSize + 1, Min(p * PageSize, Len(list)))

\* the answer to the request of page p: a remote with the pagination defect
\* ignores the page parameter and answers every request with the first page
ServedPage(list, p, d) == PageOf(list, IF d THEN 1 ELSE p)

\* a listing entry and a resolved profile, as the dicts the remote returns
Entry(login) == [login |-> login, type |-> AccountType(login)]

Profile(login, n) ==
    [login |-> login, type |-> AccountType(login), followers |-> n]

(***************************************************************************)
(* Pure parts of the program.                                              *)
(***************************************************************************)
BrandChars == <<"g", "i", "t", "h", "u", "b">>

PopularityThreshold == 10000

\* mutant of should_skip_user: the popularity boundary is >= instead of >
should_skip_user_ge(user_data) ==
    IF Get(user_data, "followers", 0) >= PopularityThreshold THEN TRUE
    ELSE IF Get(user_data, "type", "") = "Organization"
            /\ Contains(BrandChars, Lower(LoginChars(Get(user_data, "login", ""))))
         THEN TRUE
         ELSE FALSE

should_skip_user(user_data) ==
    IF Get(user_data, "followers", 0) > PopularityThreshold THEN TRUE
    ELSE IF Get(user_data, "type", "") = "Organization"
            /\ Contains(BrandChars, Lower(LoginChars(Get(user_data, "login", ""))))
         THEN TRUE
         ELSE FALSE

\* {user['login'] for user in list}
UsernameSet(list) == {list[i] : i \in DOMAIN list}

\* mutant of ToFollowBack: the followed accounts are not subtracted
ToFollowBackAll(follower_usernames, following_usernames) ==
    follower_usernames

\* mutant of ToFollowBack: the accounts on one list only, whichever list
ToFollowBackEitherSide(follower_usernames, following_usernames) ==
    (follower_usernames \ following_usernames)
        \cup (following_usernames \ follower_usernames)

ToFollowBack(follower_usernames, following_usernames) ==
    follower_usernames \ following_usernames

\* mutant of NonFollowers: the operands of the difference are swapped
NonFollowersSwapped(follower_usernames, following_usernames) ==
    follower_usernames \ following_usernames

\* mutant of NonFollowers: the followers are not subtracted
NonFollowersAll(follower_usernames, following_usernames) ==
    following_usernames

NonFollowers(follower_usernames, following_usernames) ==
    following_usernames \ follower_usernames

MutualFollows(follower_usernames, following_usernames) ==
    follower_usernames \cap following_usernames

\* mutant of follow_user: every status but 404 counts as a success
follow_user_not404(status) == status # 404

\* the return value of follow_user / unfollow_user for a response status
follow_user(status) == status = 204

unfollow_user(status) == status = 204

\* a / b of two lengths: the quotient as numerator and denominator, or the
\* ZeroDivisionError Python raises
Divide(a, b) == [raised |-> (b = 0), num |-> a, den |-> b]

\* mutant of FollowRatio: the denominator is not guarded by max(..., 1)
FollowRatioUnguarded(nfollowers, nfollowing) == Divide(nfollowers, nfollowing)

FollowRatio(nfollowers, nfollowing) == Divide(nfollowers, Max(nfollowing, 1))

Statistics(followers_list, following_list) ==
    LET F == UsernameSet(followers_list)
        G == UsernameSet(following_list)
    IN  [followers_count |-> Len(followers_list),
         following_count |-> Len(following_list),
         mutual_follows  |-> Cardinality(MutualFollows(F, G)),
         only_followers  |-> Cardinality(ToFollowBack(F, G)),
         only_following  |-> Cardinality(NonFollowers(F, G)),
         follow_ratio    |-> FollowRatio(Len(followers_list), Len(following_list))]

\* the configuration checks of main and of run_automation
MainConfigMissing(tok, user) == (~tok) \/ (~user)

\* mutant of RunConfigMissing: both values must be missing to abort
RunConfigMissingBoth(tok, user) == (~tok) /\ (~user)

RunConfigMissing(tok, user) == (~tok) \/ (~user)

\* the phase conditions of run_automation
RunsFollowBack(a) == a \in {"both", "follow_back"}

RunsCleanup(a) == a \in {"both", "cleanup"}

\* mutant of RunsStatsFinal: the final statistics also run in mode cleanup
RunsStatsFinalCleanup(a) == a \in {"both", "cleanup"}

RunsStatsFinal(a) == a = "both"

\* mutant of LoopTakes: the loop ends once a candidate was not a success
LoopTakesStopOnFailure(cands, i, count, cap) ==
    i <= Len(cands) /\ ~(count >= cap) /\ count = i - 1

\* the head of an action loop: another candidate is taken
LoopTakes(cands, i, count, cap) == i <= Len(cands) /\ ~(count >= cap)

(***************************************************************************)
(* State.                                                                  *)
(***************************************************************************)
VARIABLES
    \* configuration read by __init__ (token / username: set and non-empty)
    token, username, action, max_follows_per_run, max_unfollows_per_run,
    \* the remote service: who follows the account, whom the account follows,
    \* changes by other accounts so far, the pagination defect
    remFollowers, remFollowing, remChanges, defect,
    \* position of the run: orchestrator phase, statement, phases entered,
    \* the exception that ended the run
    phase, pc, trace, error,
    \* locals of get_followers / get_following
    page, followers, following,
    \* locals of follow_back_followers / cleanup_non_followers
    to_follow_back, non_followers, candidates, idx,
    followed_count, unfollowed_count, user_info,
    \* the dict get_statistics builds and returns (run_automation uses the
    \* two dicts it receives only for the log lines of the changes)
    stats,
    \* history of the current phase: a page fetch answered with a non-200
    \* status, candidates taken by the loop, profile lookups answered,
    \* candidates whose lookup gave no profile, candidates a follow / unfollow
    \* request was answered for, 204 answers among them, action delays slept,
    \* argument and result of the last call of should_skip_user, follow /
    \* unfollow requests answered, such a request answered with status 429
    collect_failed, processed, lookups, unresolved, attempted, succeeded, delays,
    filter_in, filter_out, mutations, rate_limited,
    \* history of the run: a request was issued; the accounts followed by
    \* follow_back_followers (kept until the phase after Cleanup)
    net_used, followed_back

config == <<token, username, action, max_follows_per_run, max_unfollows_per_run>>
remote == <<remFollowers, remFollowing, remChanges, defect>>
lists  == <<page, followers, following>>
loop   == <<to_follow_back, non_followers, candidates, idx,
            followed_count, unfollowed_count, user_info>>
locals == <<lists, loop, stats>>
filt   == <<filter_in, filter_out>>
hist   == <<collect_failed, processed, lookups, unresolved, attempted,
            succeeded, delays, filt, mutations, rate_limited>>
vars   == <<config, remote, phase, pc, trace, error, locals, hist, net_used,
            followed_back>>

CollectPhases == {"StatsInitial", "FollowBack", "Cleanup", "StatsFinal"}

\* the state after construction, up to the configuration and the remote
Start ==
    /\ remChanges = 0
    /\ phase = "Init"
    /\ pc \in {"main", "run_automation"}
    /\ trace = <<>>
    /\ error = "none"
    /\ page = 1
    /\ followers = <<>>
    /\ following = <<>>
    /\ to_follow_back = {}
    /\ non_followers = {}
    /\ candidates = <<>>
    /\ idx = 1
    /\ followed_count = 0
    /\ unfollowed_count = 0
    /\ user_info = None
    /\ stats = None
    /\ collect_failed = FALSE
    /\ processed = <<>>
    /\ lookups = 0
    /\ unresolved = {}
    /\ attempted = {}
    /\ succeeded = 0
    /\ delays = 0
    /\ filter_in = None
    /\ filter_out = FALSE
    /\ mutations = 0
    /\ rate_limited = FALSE
    /\ net_used = FALSE
    /\ followed_back = {}

Init ==
    /\ token \in BOOLEAN
    /\ username \in BOOLEAN
    /\ action \in Actions
    /\ max_follows_per_run \in 0..MaxCap
    /\ max_unfollows_per_run \in 0..MaxCap
    /\ remFollowers \in SUBSET Users
    /\ remFollowing \in SUBSET Users
    /\ defect = FALSE
    /\ Start

\* a run with the largest caps against a remote with the pagination defect
InitDefect ==
    /\ token \in BOOLEAN
    /\ username \in BOOLEAN
    /\ action \in Actions
    /\ max_follows_per_run = MaxCap
    /\ max_unfollows_per_run = MaxCap
    /\ remFollowers \in SUBSET Users
    /\ remFollowing \in SUBSET Users
    /\ defect = TRUE
    /\ Start

(***************************************************************************)
(* Control transfers of run_automation.                                    *)
(***************************************************************************)
\* the locals of a phase function are fresh when it is called and gone when
\* run_automation goes on after its return
FreshLocals ==
    /\ page' = 1
    /\ followers' = <<>>
    /\ following' = <<>>
    /\ to_follow_back' = {}
    /\ non_followers' = {}
    /\ candidates' = <<>>
    /\ idx' = 1
    /\ followed_count' = 0
    /\ unfollowed_count' = 0
    /\ user_info' = None
    /\ stats' = None

FreshHistory ==
    /\ collect_failed' = FALSE
    /\ processed' = <<>>
    /\ lookups' = 0
    /\ unresolved' = {}
    /\ attempted' = {}
    /\ succeeded' = 0
    /\ delays' = 0
    /\ filter_in' = None
    /\ filter_out' = FALSE
    /\ mutations' = 0
    /\ rate_limited' = FALSE

\* a phase function is called
Enter(p) ==
    /\ phase' = p
    /\ trace' = Append(trace, p)
    /\ pc' = "get_followers"
    /\ FreshLocals
    /\ FreshHistory
    /\ followed_back' = IF p \in {"FollowBack", "Cleanup"}
                        THEN followed_back ELSE {}

\* time.sleep(10) is reached
EnterCooldown ==
    /\ phase' = "Cooldown"
    /\ trace' = Append(trace, "Cooldown")
    /\ pc' = "cooldown"
    /\ FreshLocals
    /\ FreshHistory
    /\ followed_back' = followed_back

\* run_automation returns normally
Finish ==
    /\ phase' = "Done"
    /\ pc' = "end"
    /\ trace' = trace
    /\ FreshLocals
    /\ FreshHistory
    /\ followed_back' = {}

\* a phase function returns
Return ==
    /\ pc' = "return"
    /\ UNCHANGED <<phase, trace>>

\* mutant of Raise: the exception is swallowed and the run goes on with the
\* pause and the phases after it
RaiseAndGoOn(e) ==
    /\ phase' = "Cooldown"
    /\ error' = e
    /\ pc' = "cooldown"
    /\ trace' = trace
    /\ FreshLocals
    /\ followed_back' = followed_back

\* an exception leaves the phase function and run_automation
Raise(e) ==
    /\ phase' = "Failed"
    /\ error' = e
    /\ pc' = "end"
    /\ trace' = trace
    /\ FreshLocals
    /\ followed_back' = followed_back

\* the statements of run_automation after the first get_statistics
AfterStatsInitial ==
    IF RunsFollowBack(action) THEN Enter("FollowBack")
    ELSE IF RunsCleanup(action) THEN Enter("Cleanup")
    ELSE IF RunsStatsFinal(action) THEN Enter("StatsFinal")
    ELSE Finish

\* ... after time.sleep(10)
AfterCooldown ==
    IF RunsCleanup(action) THEN Enter("Cleanup")
    ELSE IF RunsStatsFinal(action) THEN Enter("StatsFinal")
    ELSE Finish

\* ... after cleanup_non_followers returned
AfterCleanup ==
    IF RunsStatsFinal(action) THEN Enter("StatsFinal")
    ELSE Finish

(***************************************************************************)
(* Actions.                                                                *)
(***************************************************************************)
\* main(): the two configuration checks, then run_automation(action)
main ==
    /\ pc = "main"
    /\ IF MainConfigMissing(token, username)
       THEN /\ phase' = "Aborted"
            /\ pc' = "end"
       ELSE /\ pc' = "run_automation"
            /\ phase' = phase
    /\ UNCHANGED <<config, remote, trace, error, locals, hist, net_used,
                   followed_back>>

\* run_automation(action) up to the call of get_statistics
run_automation ==
    /\ pc = "run_automation"
    /\ IF RunConfigMissing(token, username)
       THEN /\ phase' = "Aborted"
            /\ pc' = "end"
            /\ UNCHANGED <<trace, locals, hist, followed_back>>
       ELSE Enter("StatsInitial")
    /\ UNCHANGED <<config, remote, error, net_used>>

\* the statement that follows the two collections of a phase
AfterCollect ==
    CASE phase \in {"StatsInitial", "StatsFinal"} -> "get_statistics"
      [] phase = "FollowBack"                   -> "follow_back_followers"
      [] phase = "Cleanup"                      -> "cleanup_non_followers"

\* one iteration of the while loop of get_followers: one page request
get_followers ==
    /\ phase \in CollectPhases
    /\ pc = "get_followers"
    /\ page < MaxPages
    /\ net_used' = TRUE
    /\ \E status \in GetStatuses :
         /\ IF status = 200
            THEN LET page_followers == ServedPage(Listing(remFollowers), page, defect)
                 IN  IF page_followers = <<>>
                     THEN /\ pc' = "get_following"
                          /\ page' = 1
                          /\ UNCHANGED <<followers, collect_failed>>
                     ELSE /\ followers' = followers \o page_followers
                          /\ page' = page + 1
                          /\ UNCHANGED <<pc, collect_failed>>
            ELSE /\ collect_failed' = TRUE
                 /\ pc' = "get_following"
                 /\ page' = 1
                 /\ UNCHANGED followers
         /\ rate_limited' = rate_limited
    /\ UNCHANGED <<config, remote, phase, trace, error, following, loop, stats,
                   processed, lookups, unresolved, attempted, succeeded, delays,
                   filt, mutations, followed_back>>

\* one iteration of the while loop of get_following: one page request
get_following ==
    /\ phase \in CollectPhases
    /\ pc = "get_following"
    /\ page < MaxPages
    /\ net_used' = TRUE
    /\ \E status \in GetStatuses :
         /\ IF status = 200
            THEN LET page_following == ServedPage(Listing(remFollowing), page, defect)
                 IN  IF page_following = <<>>
                     THEN /\ pc' = AfterCollect
                          /\ page' = 1
                          /\ UNCHANGED <<following, collect_failed>>
                     ELSE /\ following' = following \o page_following
                          /\ page' = page + 1
                          /\ UNCHANGED <<pc, collect_failed>>
            ELSE /\ collect_failed' = TRUE
                 /\ pc' = AfterCollect
                 /\ page' = 1
                 /\ UNCHANGED following
         /\ rate_limited' = rate_limited
    /\ UNCHANGED <<config, remote, phase, trace, error, followers, loop, stats,
                   processed, lookups, unresolved, attempted, succeeded, delays,
                   filt, mutations, followed_back>>

\* get_statistics after its two collections
get_statistics ==
    /\ phase \in {"StatsInitial", "StatsFinal"}
    /\ pc = "get_statistics"
    /\ LET st == Statistics(followers, following)
       IN  IF st.follow_ratio.raised
           THEN /\ Raise("ZeroDivisionError")
                /\ UNCHANGED hist
           ELSE /\ stats' = st
                /\ Return
                /\ UNCHANGED <<error, lists, loop, hist, followed_back>>
    /\ UNCHANGED <<config, remote, net_used>>

\* run_automation after get_statistics returned
after_statistics ==
    /\ phase \in {"StatsInitial", "StatsFinal"}
    /\ pc = "return"
    /\ IF phase = "StatsInitial" THEN AfterStatsInitial ELSE Finish
    /\ UNCHANGED <<config, remote, error, net_used>>

\* follow_back_followers from the set difference to the head of its loop
follow_back_followers ==
    /\ phase = "FollowBack"
    /\ pc = "follow_back_followers"
    /\ LET tfb == ToFollowBack(UsernameSet(followers), UsernameSet(following))
       IN  /\ to_follow_back' = tfb
           /\ IF tfb = {}
              THEN /\ Return
                   /\ UNCHANGED candidates
              ELSE \E order \in Perms(tfb) :
                     /\ candidates' = Slice(order, max_follows_per_run)
                     /\ IF LoopTakes(candidates', 1, 0, max_follows_per_run)
                        THEN /\ pc' = "get_user_info"
                             /\ UNCHANGED <<phase, trace>>
                        ELSE Return
    /\ UNCHANGED <<config, remote, error, lists, non_followers, idx,
                   followed_count, unfollowed_count, user_info, stats, hist,
                   net_used, followed_back>>

\* the profile request of one candidate and the filter on its answer
get_user_info ==
    /\ phase = "FollowBack"
    /\ pc = "get_user_info"
    /\ net_used' = TRUE
    /\ lookups' = lookups + 1
    /\ processed' = Append(processed, candidates[idx])
    /\ \E status \in GetStatuses, n \in FollowerCounts :
         LET info == IF status = 200 THEN Profile(candidates[idx], n) ELSE None
             skip == info # None /\ should_skip_user(info)
         IN  /\ user_info' = info
             /\ unresolved' = IF info = None
                              THEN unresolved \cup {candidates[idx]}
                              ELSE unresolved
             /\ IF info # None
                THEN /\ filter_in' = info
                     /\ filter_out' = should_skip_user(info)
                ELSE UNCHANGED filt
             /\ IF skip
                THEN /\ idx' = idx + 1
                     /\ IF LoopTakes(candidates, idx + 1, followed_count,
                                     max_follows_per_run)
                        THEN UNCHANGED <<pc, phase, trace>>
                        ELSE Return
                ELSE /\ pc' = "follow_user"
                     /\ UNCHANGED <<idx, phase, trace>>
             /\ rate_limited' = rate_limited
    /\ UNCHANGED <<config, remote, error, lists, to_follow_back, non_followers,
                   candidates, followed_count, unfollowed_count, stats,
                   collect_failed, attempted, succeeded, delays, mutations,
                   followed_back>>

\* the follow request of one candidate, the count and the delay
follow_request ==
    /\ phase = "FollowBack"
    /\ pc = "follow_user"
    /\ net_used' = TRUE
    /\ attempted' = attempted \cup {candidates[idx]}
    /\ mutations' = mutations + 1
    /\ idx' = idx + 1
    /\ \E status \in MutStatuses :
         /\ remFollowing' = IF status = 204
                            THEN remFollowing \cup {candidates[idx]}
                            ELSE remFollowing
         /\ followed_back' = IF status = 204
                             THEN followed_back \cup {candidates[idx]}
                             ELSE followed_back
         /\ rate_limited' = (rate_limited \/ status = 429)
         /\ succeeded' = IF status = 204 THEN succeeded + 1 ELSE succeeded
         /\ followed_count' = IF follow_user(status)
                              THEN followed_count + 1 ELSE followed_count
         /\ delays' = IF follow_user(status) THEN delays + 1 ELSE delays
    /\ IF LoopTakes(candidates, idx', followed_count', max_follows_per_run)
       THEN /\ pc' = "get_user_info"
            /\ UNCHANGED <<phase, trace>>
       ELSE Return
    /\ UNCHANGED <<config, remFollowers, remChanges, defect, error, lists,
                   to_follow_back, non_followers, candidates, unfollowed_count,
                   user_info, stats, collect_failed, processed, lookups,
                   unresolved, filt>>

\* run_automation after follow_back_followers returned: time.sleep(10)
after_follow_back ==
    /\ phase = "FollowBack"
    /\ pc = "return"
    /\ EnterCooldown
    /\ UNCHANGED <<config, remote, error, net_used>>

\* run_automation after time.sleep(10), up to the next call
cooldown ==
    /\ phase = "Cooldown"
    /\ pc = "cooldown"
    /\ AfterCooldown
    /\ UNCHANGED <<config, remote, error, net_used>>

\* cleanup_non_followers from the set difference to the head of its loop
cleanup_non_followers ==
    /\ phase = "Cleanup"
    /\ pc = "cleanup_non_followers"
    /\ LET nf == NonFollowers(UsernameSet(followers), UsernameSet(following))
       IN  /\ non_followers' = nf
           /\ IF nf = {}
              THEN /\ Return
                   /\ UNCHANGED candidates
              ELSE \E order \in Perms(nf) :
                     /\ candidates' = Slice(order, max_unfollows_per_run)
                     /\ IF LoopTakes(candidates', 1, 0, max_unfollows_per_run)
                        THEN /\ pc' = "unfollow_user"
                             /\ UNCHANGED <<phase, trace>>
                        ELSE Return
    /\ UNCHANGED <<config, remote, error, lists, to_follow_back, idx,
                   followed_count, unfollowed_count, user_info, stats, hist,
                   net_used, followed_back>>

\* following_info.get(username, {}) in cleanup_non_followers: the listing
\* entry of the login, which carries no 'followers' field
FollowingInfo(list, login) ==
    IF \E i \in DOMAIN list : list[i] = login THEN Entry(login) ELSE <<>>

\* one iteration of the loop of cleanup_non_followers: the filter on the
\* listing entry, the unfollow request, the count and the delay
unfollow_request ==
    /\ phase = "Cleanup"
    /\ pc = "unfollow_user"
    /\ processed' = Append(processed, candidates[idx])
    /\ idx' = idx + 1
    /\ user_info' = FollowingInfo(following, candidates[idx])
    /\ filter_in' = user_info'
    /\ filter_out' = should_skip_user(user_info')
    /\ IF should_skip_user(user_info')
       THEN UNCHANGED <<remFollowing, attempted, succeeded, unfollowed_count,
                        delays, net_used, mutations, rate_limited>>
       ELSE /\ net_used' = TRUE
            /\ attempted' = attempted \cup {candidates[idx]}
            /\ mutations' = mutations + 1
            /\ \E status \in MutStatuses :
                 /\ rate_limited' = (rate_limited \/ status = 429)
                 /\ remFollowing' = IF status = 204
                                    THEN remFollowing \ {candidates[idx]}
                                    ELSE remFollowing
                 /\ succeeded' = IF status = 204 THEN succeeded + 1 ELSE succeeded
                 /\ unfollowed_count' = IF unfollow_user(status)
                                        THEN unfollowed_count + 1
                                        ELSE unfollowed_count
                 /\ delays' = IF unfollow_user(status) THEN delays + 1 ELSE delays
    /\ IF LoopTakes(candidates, idx', unfollowed_count', max_unfollows_per_run)
       THEN UNCHANGED <<pc, phase, trace>>
       ELSE Return
    /\ UNCHANGED <<config, remFollowers, remChanges, defect, error, lists,
                   to_follow_back, non_followers, candidates, followed_count,
                   stats, collect_failed, lookups, unresolved, followed_back>>

\* run_automation after cleanup_non_followers returned
after_cleanup ==
    /\ phase = "Cleanup"
    /\ pc = "return"
    /\ AfterCleanup
    /\ UNCHANGED <<config, remote, error, net_used>>

\* a request is pending at this statement
RequestPending ==
    \/ phase \in CollectPhases /\ pc \in {"get_followers", "get_following"}
    \/ phase = "FollowBack" /\ pc \in {"get_user_info", "follow_user"}
    \/ /\ phase = "Cleanup"
       /\ pc = "unfollow_user"
       /\ ~should_skip_user(FollowingInfo(following, candidates[idx]))

\* requests.get / put / delete raises (connection error, timeout): the
\* exception passes through the except clause of run_automation
request_raises ==
    /\ RequestPending
    /\ net_used' = TRUE
    /\ Raise("RequestException")
    \* the statements of the iteration that precede the raising call: the
    \* loop has taken the candidate, and in cleanup_non_followers
    \* should_skip_user was called on its listing entry and returned False
    /\ IF phase = "FollowBack" /\ pc = "get_user_info"
       THEN /\ processed' = Append(processed, candidates[idx])
            /\ UNCHANGED filt
       ELSE IF phase = "Cleanup" /\ pc = "unfollow_user"
       THEN /\ processed' = Append(processed, candidates[idx])
            /\ filter_in' = FollowingInfo(following, candidates[idx])
            /\ filter_out' = should_skip_user(filter_in')
       ELSE UNCHANGED <<processed, filt>>
    /\ UNCHANGED <<config, remote, collect_failed, lookups, unresolved,
                   attempted, succeeded, delays, mutations, rate_limited>>

\* another account starts or stops following the operating account; the
\* program observes the followers only through the page requests of
\* get_followers, so a change at any other time is the same as a change just
\* before the first page request of the next collection
remote_change ==
    /\ phase \in CollectPhases
    /\ pc = "get_followers"
    /\ remChanges < MaxRemoteChanges
    /\ remChanges' = remChanges + 1
    /\ \E u \in Users :
         remFollowers' = IF u \in remFollowers
                         THEN remFollowers \ {u}
                         ELSE remFollowers \cup {u}
    /\ UNCHANGED <<config, remFollowing, defect, phase, pc, trace, error, locals, hist,
                   net_used, followed_back>>

Next ==
    \/ main
    \/ run_automation
    \/ get_followers
    \/ get_following
    \/ get_statistics
    \/ after_statistics
    \/ follow_back_followers
    \/ get_user_info
    \/ follow_request
    \/ after_follow_back
    \/ cooldown
    \/ cleanup_non_followers
    \/ unfollow_request
    \/ after_cleanup
    \/ request_raises
    \/ remote_change

Spec == Init /\ [][Next]_vars

\* the runs against a remote with the pagination defect
SpecDefect == InitDefect /\ [][Next]_vars

(***************************************************************************)
(* Properties.                                                             *)
(***************************************************************************)
In(u, list) == \E i \in DOMAIN list : list[i] = u

NoDuplicates(list) ==
    \A i, j \in DOMAIN list : list[i] = list[j] => i = j

IsPrefix(s, t) == Len(s) <= Len(t) /\ SubSeq(t, 1, Len(s)) = s

\* the candidates of the running action loop and its cap
LoopSet == IF phase = "FollowBack" THEN to_follow_back ELSE non_followers

LoopCap ==
    IF phase = "FollowBack" THEN max_follows_per_run ELSE max_unfollows_per_run

\* C1: an action loop over n candidates with cap c never takes more than
\* min(n, c) candidates, each at most once and only candidates of the set,
\* requests a follow / unfollow only for candidates it took, and has taken
\* exactly min(n, c) candidates when the phase function returns, whatever the
\* filter skipped and whatever the remote answered.
C1_CapInvariant ==
    phase \in {"FollowBack", "Cleanup"} =>
        /\ Len(processed) <= LoopCap
        /\ Len(processed) <= Cardinality(LoopSet)
        /\ NoDuplicates(processed)
        /\ \A i \in DOMAIN processed : processed[i] \in LoopSet
        /\ \A u \in attempted : In(u, processed)
        /\ pc = "return" =>
             Len(processed) = IF Cardinality(LoopSet) < LoopCap
                              THEN Cardinality(LoopSet) ELSE LoopCap

\* C1 witness: a follow-back loop over more candidates than the cap has
\* returned after taking cap candidates, one of them without a follow request.
C1_Witness ==
    /\ phase = "FollowBack"
    /\ pc = "return"
    /\ max_follows_per_run = 2
    /\ Cardinality(to_follow_back) = 3
    /\ Len(processed) = 2
    /\ Cardinality(attempted) = 1

\* C2: once a page request of a collection was answered with a non-success
\* status, the phase does not go on with the collected lists: no statistics
\* are built from them, no follow / unfollow request is issued and the phase
\* function does not return normally.
C2_FailedCollectionNeverUsed ==
    collect_failed =>
        /\ stats = None
        /\ attempted = {}
        /\ pc # "return"

\* C3: no follow / unfollow request (and so no action delay) is issued for a
\* candidate whose profile request gave no profile.
C3_UnresolvedIsSkipped ==
    unresolved \cap attempted = {}

\* C4: when every collected follower is among the collected following,
\* follow_back_followers returns at once: no profile request, no follow
\* request, no change of the remote following set.
C4_FollowBackIdempotent ==
    ( /\ phase = "FollowBack"
      /\ pc \notin {"get_followers", "get_following", "follow_back_followers"}
      /\ \A u \in Users : In(u, followers) => In(u, following) )
    => /\ pc = "return"
       /\ lookups = 0
       /\ attempted = {}
       /\ succeeded = 0
       /\ candidates = <<>>

\* C4 witness: follow_back_followers returned with a non-empty followers
\* list whose members are all followed.
C4_Witness ==
    /\ phase = "FollowBack"
    /\ pc = "return"
    /\ Len(followers) >= 2
    /\ \A u \in Users : In(u, followers) => In(u, following)

\* C5: the differences the program computes are F minus G (follow-back),
\* G minus F (cleanup), and in the statistics the sizes of F minus G, G minus F
\* and F intersect G, three parts that add up to the size of F union G, for
\* F / G the logins on the collected followers / following lists.
C5_SetAlgebra ==
    LET F == {u \in Users : In(u, followers)}
        G == {u \in Users : In(u, following)}
    IN  /\ (phase = "FollowBack" /\ pc \in {"get_user_info", "follow_user", "return"})
           => to_follow_back = {u \in Users : u \in F /\ u \notin G}
        /\ (phase = "Cleanup" /\ pc \in {"unfollow_user", "return"})
           => non_followers = {u \in Users : u \in G /\ u \notin F}
        /\ stats # None
           => /\ stats.only_followers =
                    Cardinality({u \in Users : u \in F /\ u \notin G})
              /\ stats.only_following =
                    Cardinality({u \in Users : u \in G /\ u \notin F})
              /\ stats.mutual_follows =
                    Cardinality({u \in Users : u \in F /\ u \in G})
              /\ stats.only_followers + stats.only_following
                    + stats.mutual_follows = Cardinality(F \cup G)

\* C5 witness: statistics over lists with a follower not followed, a
\* followed account that does not follow, and a mutual follow.
C5_Witness ==
    /\ stats # None
    /\ stats.only_followers = 1
    /\ stats.only_following = 1
    /\ stats.mutual_follows = 1

\* the logins that contain 'github' in any case
BrandLogins == {"GitHub", "githubfan"}

\* C6: should_skip_user answers true exactly for a followers count above
\* 10000 and for an Organization whose login contains 'github' in any case:
\* 10001 followers are skipped, 10000 are not unless the brand rule applies.
C6_FilterDecision ==
    filter_in # None =>
        LET n     == IF "followers" \in DOMAIN filter_in
                     THEN filter_in.followers ELSE 0
            brand == filter_in.type = "Organization"
                     /\ filter_in.login \in BrandLogins
        IN  /\ filter_out = (n > 10000 \/ brand)
            /\ n = 10001 => filter_out
            /\ (n = 10000 /\ ~brand) => ~filter_out

\* C6 witness: the filter has let pass an Organization without the brand in
\* its login that has exactly 10000 followers.
C6_Witness ==
    /\ filter_in = Profile("acme", 10000)
    /\ filter_out = FALSE

\* C7: the action delays slept in a phase are as many as the follow /
\* unfollow requests answered 204; with cap 2 and three candidates that all
\* pass the filter and are all followed, two candidates are taken and two
\* delays are slept.
C7_DelayOnlyAfterSuccess ==
    /\ delays = succeeded
    /\ ( /\ phase = "FollowBack"
         /\ pc = "return"
         /\ max_follows_per_run = 2
         /\ Cardinality(to_follow_back) = 3
         /\ succeeded = Len(processed) )
       => /\ Len(processed) = 2
          /\ Cardinality(attempted) = 2
          /\ delays = 2

\* C7 witness: cap 2, three candidates, the loop returned after two follows
\* answered 204.
C7_Witness ==
    /\ phase = "FollowBack"
    /\ pc = "return"
    /\ max_follows_per_run = 2
    /\ Cardinality(to_follow_back) = 3
    /\ succeeded = 2
    /\ delays = 2

\* C8: with the token or the username missing no request is ever issued and
\* no phase is entered.
C8_MissingConfigNoNetwork ==
    (~token \/ ~username) =>
        /\ ~net_used
        /\ trace = <<>>
        /\ phase \in {"Init", "Aborted"}

\* C8 witness: run_automation, called directly, has ended for a missing
\* username though the token is set.
C8_Witness ==
    /\ token
    /\ ~username
    /\ phase = "Aborted"
    /\ pc = "end"

\* C9: follow_ratio is followers_count over max(following_count, 1): with
\* following_count = 0 it is followers_count over 1, and no ZeroDivisionError
\* ends a run.
C9_RatioSafety ==
    /\ error # "ZeroDivisionError"
    /\ stats # None =>
         /\ ~stats.follow_ratio.raised
         /\ stats.follow_ratio.num = stats.followers_count
         /\ stats.follow_ratio.den =
              IF stats.following_count = 0 THEN 1 ELSE stats.following_count

\* C9 witness: statistics of an account that follows nobody and has followers.
C9_Witness ==
    /\ stats # None
    /\ stats.following_count = 0
    /\ stats.followers_count = 3
    /\ stats.follow_ratio.num = 3
    /\ stats.follow_ratio.den = 1

NotCooldown(p) == p # "Cooldown"

\* the phase functions called so far, in order
PhasesEntered == SelectSeq(trace, NotCooldown)

\* the phases of a complete run in a mode
ExpectedPhases(a) ==
    <<"StatsInitial">>
    \o (IF a \in {"both", "follow_back"} THEN <<"FollowBack">> ELSE <<>>)
    \o (IF a \in {"both", "cleanup"} THEN <<"Cleanup">> ELSE <<>>)
    \o (IF a = "both" THEN <<"StatsFinal">> ELSE <<>>)

\* C10: the phases entered are at any time the first phases of
\* StatsInitial, FollowBack (modes both, follow_back), Cleanup (modes both,
\* cleanup), StatsFinal (mode both), in this order and each once; a run that
\* completes has entered all of them; a follow / unfollow request is issued
\* only in FollowBack or Cleanup, after StatsInitial.
C10_PhaseSequence ==
    /\ IsPrefix(PhasesEntered, ExpectedPhases(action))
    /\ phase = "Done" => PhasesEntered = ExpectedPhases(action)
    /\ phase \in CollectPhases =>
         PhasesEntered # <<>> /\ PhasesEntered[Len(PhasesEntered)] = phase
    /\ attempted # {} =>
         /\ Len(PhasesEntered) >= 2
         /\ PhasesEntered[1] = "StatsInitial"
         /\ PhasesEntered[Len(PhasesEntered)] \in {"FollowBack", "Cleanup"}

\* C10 witness: a run in mode both has completed after its four phases.
C10_Witness ==
    /\ phase = "Done"
    /\ action = "both"
    /\ PhasesEntered = <<"StatsInitial", "FollowBack", "Cleanup", "StatsFinal">>

\* C11: the pause of 10 seconds is slept only in a run that goes on with
\* Cleanup after FollowBack: never in mode follow_back, never in mode cleanup.
C11_CooldownOnlyBetweenPhases ==
    (\E i \in DOMAIN trace : trace[i] = "Cooldown") => action = "both"

\* C13: a follow / unfollow request answered 404 or with another failure
\* status is not counted as a success and does not end the loop: the count is
\* the number of 204 answers, the loop stands after the last candidate it
\* took, and when the phase function returns every selected candidate was
\* taken.
C13_CandidateErrorsDoNotAbort ==
    phase \in {"FollowBack", "Cleanup"} =>
        /\ followed_count + unfollowed_count = succeeded
        /\ pc \in {"get_user_info", "unfollow_user"} =>
             idx <= Len(candidates) /\ Len(processed) = idx - 1
        /\ pc = "follow_user" =>
             idx <= Len(candidates) /\ Len(processed) = idx
        /\ pc = "return" =>
             /\ Len(processed) = Len(candidates)
             /\ Len(candidates) = IF Cardinality(LoopSet) < LoopCap
                                  THEN Cardinality(LoopSet) ELSE LoopCap

\* C13 witness: a cleanup loop with cap 2 has returned after two unfollow
\* requests, the first or the second of which failed.
C13_Witness ==
    /\ phase = "Cleanup"
    /\ pc = "return"
    /\ Len(processed) = 2
    /\ Cardinality(attempted) = 2
    /\ succeeded = 1

\* C14: once an exception has left a phase the run is Failed and stays so:
\* no phase is entered, no follow / unfollow request is issued, and the
\* remote following set keeps the follows / unfollows already applied.
C14_FailureAbortsRun ==
    /\ [](error # "none" => (phase = "Failed" /\ pc = "end"))
    /\ [][error' # "none" =>
            /\ trace' = trace
            /\ remFollowing' = remFollowing
            /\ attempted' = attempted
            /\ succeeded' = succeeded]_vars

\* C14 witness: a run has failed in FollowBack after a follow was applied,
\* and the account is still followed.
C14_Witness ==
    /\ phase = "Failed"
    /\ trace # <<>>
    /\ trace[Len(trace)] = "FollowBack"
    /\ succeeded = 1
    /\ \E u \in attempted : u \in remFollowing

\* C16: in every result of get_statistics followers_count is mutual_follows
\* plus only_followers and following_count is mutual_follows plus
\* only_following, also when a login is on two pages of a listing.
C16_StatisticsConsistent ==
    stats # None =>
        /\ stats.followers_count = stats.mutual_follows + stats.only_followers
        /\ stats.following_count = stats.mutual_follows + stats.only_following

\* C17: an unfollow request in cleanup_non_followers follows a filter
\* decision taken on a resolved profile, one that carries the followers count
\* of the account.
C17_CleanupFiltersResolvedProfile ==
    (phase = "Cleanup" /\ attempted # {}) => "followers" \in DOMAIN filter_in

\* the lists an action loop could be given
CandidateLists == UNION {[1..n -> Users] : n \in 0..Cardinality(Users)}

\* C18: the candidates an action loop takes are determined by the collected
\* lists and the cap: the step that selects them has one possible outcome.
C18_CandidateOrderDeterministic ==
    /\ pc = "follow_back_followers" =>
         Cardinality({v \in CandidateLists :
            ENABLED (follow_back_followers /\ candidates' = v)}) <= 1
    /\ pc = "cleanup_non_followers" =>
         Cardinality({v \in CandidateLists :
            ENABLED (cleanup_non_followers /\ candidates' = v)}) <= 1

\* C12: a follow / unfollow request answered with status 429 is the last
\* one of its phase: while the phase goes on no further follow / unfollow
\* request is issued.
C12_RateLimitEndsPhase ==
    [][(rate_limited /\ phase' = phase) => mutations' = mutations]_vars

\* the accounts on the collected followers list and not on the collected
\* following list, and the reverse
CollectedOnlyFollowers ==
    {u \in Users : In(u, followers) /\ ~In(u, following)}

CollectedOnlyFollowing ==
    {u \in Users : In(u, following) /\ ~In(u, followers)}

\* C19: every follow request of follow_back_followers names an account on
\* the collected followers list and not on the collected following list,
\* every unfollow request of cleanup_non_followers names an account on the
\* collected following list and not on the collected followers list, and a
\* phase issues at most one such request for an account.
C19_MutationsTargetDifferences ==
    /\ phase = "FollowBack" => attempted \subseteq CollectedOnlyFollowers
    /\ phase = "Cleanup" => attempted \subseteq CollectedOnlyFollowing
    /\ phase \in {"FollowBack", "Cleanup"} =>
         mutations = Cardinality(attempted)

C19_Witness ==
    /\ phase = "Cleanup"
    /\ pc = "return"
    /\ Cardinality(attempted) = 2
    /\ \E u \in Users : In(u, followers) /\ In(u, following)

\* C20: in mode both, when the follower relation of the remote did not
\* change during the run and no page fetch of Cleanup failed, no account
\* followed by follow_back_followers gets an unfollow request in Cleanup.
C20_NoFollowThenUnfollow ==
    (phase = "Cleanup" /\ remChanges = 0 /\ ~collect_failed) =>
        attempted \cap followed_back = {}

C20_Witness ==
    /\ phase = "Cleanup"
    /\ pc = "return"
    /\ remChanges = 0
    /\ ~collect_failed
    /\ followed_back # {}
    /\ attempted # {}

\* C15: a collection stops at a page ceiling: the page number of
\* get_followers / get_following stays below MaxPages, also with a remote
\* that never answers with an empty page.
C15_CollectionStopsAtCeiling == page < MaxPages
====
